---- MODULE Spec2Model ----
(***************************************************************************)
(* Model of hello.py: resolution of the server url of an OpenAPI path      *)
(* (get_path_server_url), download of the specification document          *)
(* (download_spec), its version dispatch (parse_openapi_spec), the GET     *)
(* endpoint descriptions (generate_endpoint_descriptions), the selection   *)
(* of an endpoint and of its parameters by a language model                *)
(* (select_endpoint, select_parameters) and the construction of the data   *)
(* source (generate_endpoint_dlt_rest_api_source).                         *)
(***************************************************************************)
EXTENDS Naturals, Sequences, FiniteSets, TLC

VARIABLES
    doc,            \* the document (dict) handed to OpenAPI.model_validate
    openapi_spec,   \* the validated OpenAPI object
    pc,             \* the operation executed last
    path,           \* the path argument of the last get_path_server_url call
    outcome,        \* the outcome of the last get_path_server_url call
    prev,           \* the call right before it, when it was a get_path_server_url call too
    response,       \* the HTTP response download_spec got
    steps,          \* the statements download_spec has executed, in order
    download,       \* the outcome of download_spec
    descriptions,   \* the mapping generate_endpoint_descriptions returned
    params,         \* the select_parameters call: its position, locals and outcome
    selection,      \* the select_endpoint call: its position, locals and outcome
    source,         \* the generate_endpoint_dlt_rest_api_source call
    parse           \* the parse_openapi_spec call

vars == <<doc, openapi_spec, pc, path, outcome, prev, response, steps, download, descriptions,
          params, selection, source, parse>>

\* the calls of select_parameters, select_endpoint, generate_endpoint_dlt_rest_api_source
\* and parse_openapi_spec
callVars == <<params, selection, source, parse>>

(***************************************************************************)
(* Python values.  An Optional is None or Some(v); a call returns a value  *)
(* or raises.                                                              *)
(***************************************************************************)
None == [isNone |-> TRUE]
Some(v) == [isNone |-> FALSE, val |-> v]

NoOutcome == [kind |-> "none", value |-> ""]
Return(v) == [kind |-> "return", value |-> v]
Raise(msg) == [kind |-> "raise", value |-> msg]

\* bool(x) of an Optional[str], Optional[list] and Optional[dict]
TruthyStr(s) == ~s.isNone /\ s.val /= ""
TruthyList(l) == ~l.isNone /\ Len(l.val) > 0
TruthyDict(d) == ~d.isNone /\ DOMAIN d.val /= {}

(***************************************************************************)
(* Bounds and the documents the model is run on.                           *)
(***************************************************************************)
MaxServers == 2

Urls == {"", "https://api.example.com/v1"}
PathKeys == {"/weather", "/other"}
PathArgs == {None, Some(""), Some("/weather"), Some("/other"), Some("/nonexistent")}

SeqsUpTo(S, n) == UNION {[1..k -> S] : k \in 0..n}

Server(u) == [url |-> u]
ServerLists == SeqsUpTo({Server(u) : u \in Urls}, MaxServers)
OptServerLists == {None} \cup {Some(l) : l \in ServerLists}

Operation(summary) == [summary |-> summary]

PathItem(servers, get, post, put) ==
    [servers |-> servers, get |-> get, post |-> post, put |-> put]

\* path items as in the fixture spec_with_path_servers: a GET operation and servers
GetPathItems == {PathItem(s, Some(Operation("Get")), None, None) : s \in OptServerLists}

PathMaps(items) == UNION {[K -> items] : K \in SUBSET PathKeys}

Document(servers, paths) == [servers |-> servers, paths |-> paths]

ServerDocuments ==
    {Document(s, p) : s \in OptServerLists,
                      p \in {None} \cup {Some(m) : m \in PathMaps(GetPathItems)}}

(***************************************************************************)
(* OpenAPI.model_validate: the document's fields become the object's; a    *)
(* document without `servers` gets the model's default server list, which  *)
(* is why the tests assign `spec.servers = []` to remove the root servers. *)
(***************************************************************************)
DefaultServers == <<Server("/")>>

model_validate(d) ==
    [servers |-> IF d.servers.isNone THEN Some(DefaultServers) ELSE d.servers,
     paths |-> d.paths,
     components |-> IF "components" \in DOMAIN d THEN d.components ELSE None]

(***************************************************************************)
(* get_path_server_url                                                     *)
(***************************************************************************)
NoServerFound == "No server url found in openapi spec"

\* get_path_server_url with the root-level servers consulted before the path-level ones
get_path_server_url_root_first(spec, p) ==
    IF TruthyList(spec.servers)
    THEN Return(spec.servers.val[1].url)
    ELSE IF /\ TruthyStr(p) /\ TruthyDict(spec.paths) /\ p.val \in DOMAIN spec.paths.val
            /\ TruthyList(spec.paths.val[p.val].servers)
         THEN Return(spec.paths.val[p.val].servers.val[1].url)
         ELSE Raise(NoServerFound)

\* get_path_server_url failing as soon as a supplied path has no servers of its own
get_path_server_url_strict_path(spec, p) ==
    IF TruthyStr(p)
    THEN IF /\ TruthyDict(spec.paths) /\ p.val \in DOMAIN spec.paths.val
            /\ TruthyList(spec.paths.val[p.val].servers)
         THEN Return(spec.paths.val[p.val].servers.val[1].url)
         ELSE Raise(NoServerFound)
    ELSE IF TruthyList(spec.servers)
         THEN Return(spec.servers.val[1].url)
         ELSE Raise(NoServerFound)

\* get_path_server_url falling back to the servers of any path entry
get_path_server_url_any_path(spec, p) ==
    IF /\ TruthyStr(p) /\ TruthyDict(spec.paths) /\ p.val \in DOMAIN spec.paths.val
       /\ TruthyList(spec.paths.val[p.val].servers)
    THEN Return(spec.paths.val[p.val].servers.val[1].url)
    ELSE IF TruthyList(spec.servers)
         THEN Return(spec.servers.val[1].url)
         ELSE IF /\ TruthyDict(spec.paths)
                 /\ \E k \in DOMAIN spec.paths.val : TruthyList(spec.paths.val[k].servers)
              THEN LET k == CHOOSE k \in DOMAIN spec.paths.val :
                                TruthyList(spec.paths.val[k].servers)
                   IN  Return(spec.paths.val[k].servers.val[1].url)
              ELSE Raise(NoServerFound)

\* get_path_server_url returning the last server of the list it consults
get_path_server_url_last(spec, p) ==
    IF /\ TruthyStr(p) /\ TruthyDict(spec.paths) /\ p.val \in DOMAIN spec.paths.val
       /\ TruthyList(spec.paths.val[p.val].servers)
    THEN LET l == spec.paths.val[p.val].servers.val IN Return(l[Len(l)].url)
    ELSE IF TruthyList(spec.servers)
         THEN Return(spec.servers.val[Len(spec.servers.val)].url)
         ELSE Raise(NoServerFound)

get_path_server_url(spec, p) ==
    IF /\ TruthyStr(p) /\ TruthyDict(spec.paths) /\ p.val \in DOMAIN spec.paths.val
       /\ LET path_item == spec.paths.val[p.val]
          IN  TruthyList(path_item.servers) /\ Len(path_item.servers.val) > 0
    THEN Return(spec.paths.val[p.val].servers.val[1].url)
    ELSE IF TruthyList(spec.servers) /\ Len(spec.servers.val) > 0
         THEN Return(spec.servers.val[1].url)
         ELSE Raise(NoServerFound)

\* a get_path_server_url that consumes the root-level server it returns
spec_after_pop_root_server(spec, p) ==
    [spec EXCEPT !.servers = IF TruthyList(@) THEN Some(Tail(@.val)) ELSE @]

\* a get_path_server_url that drops the server list of the path entry it looked up
spec_after_drop_path_servers(spec, p) ==
    IF TruthyStr(p) /\ TruthyDict(spec.paths) /\ p.val \in DOMAIN spec.paths.val
    THEN [spec EXCEPT !.paths = Some([@.val EXCEPT ![p.val].servers = None])]
    ELSE spec

\* the specification object after a get_path_server_url call: no assignment in the body
spec_after_get_path_server_url(spec, p) == spec

\* the variables of the operations a specification does not run
NoResponse == [status_code |-> 0, text |-> None]
NoServerCall == path = None /\ outcome = NoOutcome /\ prev = None
NoDownload == response = NoResponse /\ steps = <<>> /\ download = NoOutcome
NoDescriptions == descriptions = <<>>
NoCall == [pc |-> "idle"]
NoCalls == params = NoCall /\ selection = NoCall /\ source = NoCall /\ parse = NoCall

InitServer ==
    /\ doc \in ServerDocuments
    /\ openapi_spec = model_validate(doc)
    /\ pc = "model_validate"
    /\ NoServerCall
    /\ NoDownload
    /\ NoDescriptions
    /\ NoCalls

\* a call get_path_server_url(openapi_spec, p)
Resolve(p) ==
    /\ outcome' = get_path_server_url(openapi_spec, p)
    /\ openapi_spec' = spec_after_get_path_server_url(openapi_spec, p)
    /\ path' = p
    /\ prev' = IF pc = "get_path_server_url"
               THEN Some([path |-> path, outcome |-> outcome])
               ELSE None
    /\ pc' = "get_path_server_url"
    /\ UNCHANGED <<doc, response, steps, download, descriptions, callVars>>

\* spec.servers = []  ("Manually remove root servers")
ClearServers ==
    /\ openapi_spec' = [openapi_spec EXCEPT !.servers = Some(<<>>)]
    /\ pc' = "assign_servers"
    /\ UNCHANGED <<doc, path, outcome, prev, response, steps, download, descriptions, callVars>>

NextServer ==
    \/ \E p \in PathArgs : Resolve(p)
    \/ ClearServers

SpecServer == InitServer /\ [][NextServer]_vars

(***************************************************************************)
(* download_spec: requests.get, raise_for_status, json.loads and, when     *)
(* that raises JSONDecodeError, yaml.safe_load.                            *)
(***************************************************************************)
StatusCodes == {200, 204, 404, 500}

\* what a parser makes of a text: a value, or its decode error
ParsedValues == {"dict", "str", "None"}
ParseResults ==
    {[ok |-> FALSE, value |-> "error"]} \cup {[ok |-> TRUE, value |-> v] : v \in ParsedValues}

\* a response text, by what json.loads and yaml.safe_load make of it
Texts == {Some([json |-> j, yaml |-> y]) : j \in ParseResults, y \in ParseResults}
Responses == {[status_code |-> c, text |-> t] : c \in StatusCodes, t \in Texts}

HTTPError == "HTTPError"
ParseFailed == "Failed to parse file as json or yaml"

json_loads(text) == text.val.json
yaml_safe_load(text) == text.val.yaml

\* Response.raise_for_status raises for the 4xx and 5xx status codes
is_error_status(status_code) == status_code >= 400 /\ status_code < 600

InitDownload ==
    /\ doc = Document(None, None)
    /\ openapi_spec = model_validate(doc)
    /\ pc = "download_spec"
    /\ NoServerCall
    /\ NoDownload
    /\ NoDescriptions
    /\ NoCalls

\* with requests.get(url) as response
RequestsGet ==
    /\ pc = "download_spec"
    /\ response' \in Responses
    /\ steps' = Append(steps, "requests.get")
    /\ pc' = "requests.get"
    /\ UNCHANGED <<doc, openapi_spec, path, outcome, prev, download, descriptions, callVars>>

\* a download_spec that does not check the status of the response
RaiseForStatus_unchecked ==
    /\ pc = "requests.get"
    /\ steps' = Append(steps, "raise_for_status")
    /\ pc' = "raise_for_status"
    /\ UNCHANGED <<doc, openapi_spec, path, outcome, prev, response, download, descriptions, callVars>>

\* response.raise_for_status()
RaiseForStatus ==
    /\ pc = "requests.get"
    /\ steps' = Append(steps, "raise_for_status")
    /\ download' = IF is_error_status(response.status_code) THEN Raise(HTTPError) ELSE download
    /\ pc' = "raise_for_status"
    /\ UNCHANGED <<doc, openapi_spec, path, outcome, prev, response, descriptions, callVars>>

\* return json.loads(response.text), or on JSONDecodeError go on to the yaml attempt
JsonLoads ==
    /\ pc = "raise_for_status"
    /\ download = NoOutcome
    /\ steps' = Append(steps, "json.loads")
    /\ download' = IF json_loads(response.text).ok
                   THEN Return(json_loads(response.text).value)
                   ELSE download
    /\ pc' = "json.loads"
    /\ UNCHANGED <<doc, openapi_spec, path, outcome, prev, response, descriptions, callVars>>

\* return yaml.safe_load(response.text), or on YAMLError raise the ValueError
YamlSafeLoad ==
    /\ pc = "json.loads"
    /\ download = NoOutcome
    /\ steps' = Append(steps, "yaml.safe_load")
    /\ download' = IF yaml_safe_load(response.text).ok
                   THEN Return(yaml_safe_load(response.text).value)
                   ELSE Raise(ParseFailed)
    /\ pc' = "yaml.safe_load"
    /\ UNCHANGED <<doc, openapi_spec, path, outcome, prev, response, descriptions, callVars>>

NextDownload ==
    \/ RequestsGet
    \/ RaiseForStatus
    \/ JsonLoads
    \/ YamlSafeLoad

SpecDownload == InitDownload /\ [][NextDownload]_vars

(***************************************************************************)
(* generate_endpoint_descriptions                                          *)
(***************************************************************************)
OptOperations(summary) == {None, Some(Operation(summary))}

\* path items as in the tests of generate_endpoint_descriptions: any mix of operations
MethodPathItems ==
    {PathItem(None, g, po, pu) : g \in OptOperations("Get"),
                                 po \in OptOperations("Create"),
                                 pu \in OptOperations("Update")}

EndpointDocuments ==
    {Document(None, p) : p \in {None} \cup {Some(m) : m \in PathMaps(MethodPathItems)}}

\* path_item.model_dump(mode="json", by_alias=True, exclude_none=True)
model_dump(path_item) ==
    [f \in {g \in DOMAIN path_item : ~path_item[g].isNone} |-> path_item[f].val]

\* generate_endpoint_descriptions keeping every path that has some operation
generate_endpoint_descriptions_any_method(spec) ==
    LET path_map == IF TruthyDict(spec.paths) THEN spec.paths.val ELSE <<>>
    IN  [p \in {k \in DOMAIN path_map :
                  \/ ~path_map[k].get.isNone
                  \/ ~path_map[k].post.isNone
                  \/ ~path_map[k].put.isNone}
           |-> model_dump(path_map[p])]

generate_endpoint_descriptions(spec) ==
    LET path_map == IF TruthyDict(spec.paths) THEN spec.paths.val ELSE <<>>
    IN  [p \in {k \in DOMAIN path_map : ~path_map[k].get.isNone} |-> model_dump(path_map[p])]

InitEndpoints ==
    /\ doc \in EndpointDocuments
    /\ openapi_spec = model_validate(doc)
    /\ pc = "model_validate"
    /\ NoServerCall
    /\ NoDownload
    /\ NoDescriptions
    /\ NoCalls

\* a call generate_endpoint_descriptions(openapi_spec)
GenerateEndpointDescriptions ==
    /\ descriptions' = generate_endpoint_descriptions(openapi_spec)
    /\ pc' = "generate_endpoint_descriptions"
    /\ UNCHANGED <<doc, openapi_spec, path, outcome, prev, response, steps, download, callVars>>

NextEndpoints == GenerateEndpointDescriptions

SpecEndpoints == InitEndpoints /\ [][NextEndpoints]_vars

(***************************************************************************)
(* select_parameters: the parameter descriptions of the endpoint's GET     *)
(* operation, then llm_get_params under @retry(stop_after_attempt(3)).     *)
(***************************************************************************)
MaxParameters == 2
MaxAnswer == 2
stop_after_attempt == 3

\* the members of Operation.parameters after validation: Parameter or Reference objects
Parameter(name) == [kind |-> "Parameter", name |-> name, ref |-> <<>>]
Reference(ref) == [kind |-> "Reference", name |-> "", ref |-> ref]
NoneParameter == [kind |-> "NoneType", name |-> "", ref |-> <<>>]

\* "#/components/parameters/<name>", split at "/"
ComponentRef(name) == <<"#", "components", "parameters", name>>

OperationWithParameters(summary, parameters) ==
    [summary |-> summary, parameters |-> parameters]

DeclaredParameters == {Parameter("latitude"), Reference(ComponentRef("limit"))}
OptParameterLists ==
    {None} \cup {Some(l) : l \in SeqsUpTo(DeclaredParameters, MaxParameters)}

ParameterPathItems ==
    {PathItem(None, None, None, None)}
    \cup {PathItem(None, Some(OperationWithParameters("Get", ps)), None, None) :
            ps \in OptParameterLists}

ComponentsChoices ==
    {None,
     Some([parameters |-> None]),
     Some([parameters |-> Some([n \in {"limit"} |-> Parameter(n)])])}

ParameterDocuments ==
    {[servers |-> None, paths |-> p, components |-> c] :
        p \in {None} \cup {Some(m) : m \in PathMaps(ParameterPathItems)},
        c \in ComponentsChoices}

Endpoints == {"/weather", "/other", "/nonexistent"}

\* resolve_parameter_reference: only a dict with a "$ref" key is looked up in
\* components.parameters; every other object is returned as it is
resolve_parameter_reference(parameter, spec) ==
    IF parameter.kind = "dict" /\ parameter.ref /= <<>>
    THEN LET ref_name == parameter.ref[Len(parameter.ref)]
             parameters == spec.components.val.parameters.val
         IN  IF ref_name \in DOMAIN parameters THEN parameters[ref_name] ELSE NoneParameter
    ELSE parameter

\* resolved_parameter.model_dump(mode="json", by_alias=True, exclude_none=True)
parameter_dump(parameter) == [name |-> parameter.name]

\* the loop over endpoint_spec.get.parameters: a later parameter of the same name wins
describe_parameters(parameters, spec) ==
    LET resolved == [i \in 1..Len(parameters) |->
                        resolve_parameter_reference(parameters[i], spec)]
        kept == {i \in 1..Len(parameters) : resolved[i].kind = "Parameter"}
        last(n) == CHOOSE i \in kept :
                      /\ resolved[i].name = n
                      /\ \A j \in kept : resolved[j].name = n => j <= i
    IN  [n \in {resolved[i].name : i \in kept} |-> parameter_dump(resolved[last(n)])]

EndpointNotFound(endpoint) == <<"Endpoint", endpoint, "not found in openapi spec">>
RetryError == <<"RetryError">>

\* what the language model may answer: a list of ParameterIn, or nothing that parses
ParameterIn(name) == [name |-> name, param_in |-> "query", value |-> "1"]
AnswerNames == {"latitude", "limit", "timezone"}
NoAnswer == [wellformed |-> FALSE, parameters |-> <<>>]
Answers ==
    {NoAnswer}
    \cup {[wellformed |-> TRUE, parameters |-> l] :
            l \in SeqsUpTo({ParameterIn(n) : n \in AnswerNames}, MaxAnswer)}

\* a validator that accepts every name
invalid_names_none(v, parameter_descriptions) == {}

\* _validate_parameter_names: the names of v that are no key of parameter_descriptions
invalid_names(v, parameter_descriptions) ==
    {v[i].name : i \in {j \in 1..Len(v) : v[j].name \notin DOMAIN parameter_descriptions}}

NoResult == [kind |-> "none", value |-> <<>>]

InitParameters ==
    /\ doc \in ParameterDocuments
    /\ openapi_spec = model_validate(doc)
    /\ pc = "model_validate"
    /\ NoServerCall
    /\ NoDownload
    /\ NoDescriptions
    /\ \E e \in Endpoints :
          params = [pc |-> "select_parameters", endpoint |-> e,
                    parameter_descriptions |-> <<>>, attempts |-> 0,
                    answer |-> NoAnswer, outcome |-> NoResult]
    /\ selection = NoCall /\ source = NoCall /\ parse = NoCall

\* a lookup that takes an unknown endpoint for one without parameters
ExtractParameters_lenient ==
    /\ params.pc = "select_parameters"
    /\ LET found == TruthyDict(openapi_spec.paths)
                    /\ params.endpoint \in DOMAIN openapi_spec.paths.val
           get == openapi_spec.paths.val[params.endpoint].get
           d == IF found /\ ~get.isNone /\ TruthyList(get.val.parameters)
                THEN describe_parameters(get.val.parameters.val, openapi_spec)
                ELSE <<>>
       IN  params' = IF DOMAIN d = {}
                     THEN [params EXCEPT !.pc = "done", !.outcome = Return(<<>>)]
                     ELSE [params EXCEPT !.pc = "llm_get_params",
                                         !.parameter_descriptions = d]
    /\ pc' = "extract_parameters"
    /\ UNCHANGED <<doc, openapi_spec, path, outcome, prev, response, steps, download,
                   descriptions, selection, source, parse>>

\* a select_parameters that calls the language model also without parameters
ExtractParameters_always_llm ==
    /\ params.pc = "select_parameters"
    /\ IF TruthyDict(openapi_spec.paths) /\ params.endpoint \in DOMAIN openapi_spec.paths.val
       THEN LET get == openapi_spec.paths.val[params.endpoint].get
                d == IF ~get.isNone /\ TruthyList(get.val.parameters)
                     THEN describe_parameters(get.val.parameters.val, openapi_spec)
                     ELSE <<>>
            IN  params' = [params EXCEPT !.pc = "llm_get_params",
                                         !.parameter_descriptions = d]
       ELSE params' = [params EXCEPT !.pc = "done",
                                     !.outcome = Raise(EndpointNotFound(params.endpoint))]
    /\ pc' = "extract_parameters"
    /\ UNCHANGED <<doc, openapi_spec, path, outcome, prev, response, steps, download,
                   descriptions, selection, source, parse>>

\* select_parameters up to the call of llm_get_params (lines 156-174)
ExtractParameters ==
    /\ params.pc = "select_parameters"
    /\ IF TruthyDict(openapi_spec.paths) /\ params.endpoint \in DOMAIN openapi_spec.paths.val
       THEN LET get == openapi_spec.paths.val[params.endpoint].get
                d == IF ~get.isNone /\ TruthyList(get.val.parameters)
                     THEN describe_parameters(get.val.parameters.val, openapi_spec)
                     ELSE <<>>
            IN  params' = IF DOMAIN d = {}
                          THEN [params EXCEPT !.pc = "done", !.outcome = Return(<<>>)]
                          ELSE [params EXCEPT !.pc = "llm_get_params",
                                              !.parameter_descriptions = d]
       ELSE params' = [params EXCEPT !.pc = "done",
                                     !.outcome = Raise(EndpointNotFound(params.endpoint))]
    /\ pc' = "extract_parameters"
    /\ UNCHANGED <<doc, openapi_spec, path, outcome, prev, response, steps, download,
                   descriptions, selection, source, parse>>

\* one attempt of llm_get_params: the model answers, the answer is validated against
\* GetParamsResult, and a failure is retried until the third attempt
LlmGetParams(a) ==
    /\ params.pc = "llm_get_params"
    /\ params.attempts < stop_after_attempt
    /\ LET n == params.attempts + 1
           valid == a.wellformed
                    /\ invalid_names(a.parameters, params.parameter_descriptions) = {}
       IN  params' = IF valid
                     THEN [params EXCEPT !.pc = "done", !.attempts = n, !.answer = a,
                                         !.outcome = Return(a.parameters)]
                     ELSE IF n >= stop_after_attempt
                          THEN [params EXCEPT !.pc = "done", !.attempts = n, !.answer = a,
                                              !.outcome = Raise(RetryError)]
                          ELSE [params EXCEPT !.attempts = n, !.answer = a]
    /\ pc' = "llm_get_params"
    /\ UNCHANGED <<doc, openapi_spec, path, outcome, prev, response, steps, download,
                   descriptions, selection, source, parse>>

NextParameters ==
    \/ ExtractParameters
    \/ \E a \in Answers : LlmGetParams(a)

SpecParameters == InitParameters /\ [][NextParameters]_vars

(***************************************************************************)
(* generate_endpoint_dlt_rest_api_source: the server url of the endpoint,  *)
(* then the RESTAPIConfig handed to rest_api_resources.                    *)
(***************************************************************************)
SourceParameters == SeqsUpTo({ParameterIn("latitude"), ParameterIn("limit")}, MaxAnswer)

\* {p.name: p.value for p in parameters if p.param_in in ["query", "path"]}
params_dict(parameters) ==
    LET kept == {i \in 1..Len(parameters) : parameters[i].param_in \in {"query", "path"}}
        last(n) == CHOOSE i \in kept :
                      /\ parameters[i].name = n
                      /\ \A j \in kept : parameters[j].name = n => j <= i
    IN  [n \in {parameters[i].name : i \in kept} |-> parameters[last(n)].value]

RESTAPIConfig(server_url, endpoint, parameters) ==
    [base_url |-> server_url,
     name |-> endpoint,
     path |-> endpoint,
     params |-> params_dict(parameters)]

InitSource ==
    /\ doc \in ServerDocuments
    /\ openapi_spec = model_validate(doc)
    /\ pc = "model_validate"
    /\ NoServerCall
    /\ NoDownload
    /\ NoDescriptions
    /\ \E e \in Endpoints, ps \in SourceParameters :
          source = [pc |-> "generate_endpoint_dlt_rest_api_source",
                    endpoint |-> e, parameters |-> ps, resolve_calls |-> 0,
                    server_url |-> None, error |-> None, resource |-> None]
    /\ params = NoCall /\ selection = NoCall /\ parse = NoCall

\* a server lookup whose failure is answered with an empty base url
GetServerUrl_recovering ==
    /\ source.pc = "generate_endpoint_dlt_rest_api_source"
    /\ LET r == get_path_server_url(openapi_spec, Some(source.endpoint))
       IN  source' = [source EXCEPT !.pc = "config",
                                    !.resolve_calls = @ + 1,
                                    !.server_url = IF r.kind = "raise" THEN Some("")
                                                   ELSE Some(r.value)]
    /\ pc' = "get_path_server_url"
    /\ UNCHANGED <<doc, openapi_spec, path, outcome, prev, response, steps, download,
                   descriptions, params, selection, parse>>

\* server_url = get_path_server_url(openapi_spec, endpoint): its error leaves the function
GetServerUrl ==
    /\ source.pc = "generate_endpoint_dlt_rest_api_source"
    /\ LET r == get_path_server_url(openapi_spec, Some(source.endpoint))
       IN  source' = IF r.kind = "raise"
                     THEN [source EXCEPT !.pc = "done",
                                         !.resolve_calls = @ + 1,
                                         !.error = Some(r.value)]
                     ELSE [source EXCEPT !.pc = "config",
                                         !.resolve_calls = @ + 1,
                                         !.server_url = Some(r.value)]
    /\ pc' = "get_path_server_url"
    /\ UNCHANGED <<doc, openapi_spec, path, outcome, prev, response, steps, download,
                   descriptions, params, selection, parse>>

\* return rest_api_resources(config)
RestApiResources ==
    /\ source.pc = "config"
    /\ source' = [source EXCEPT
                    !.pc = "done",
                    !.resource = Some(RESTAPIConfig(source.server_url.val, source.endpoint,
                                                    source.parameters))]
    /\ pc' = "rest_api_resources"
    /\ UNCHANGED <<doc, openapi_spec, path, outcome, prev, response, steps, download,
                   descriptions, params, selection, parse>>

NextSource ==
    \/ GetServerUrl
    \/ RestApiResources

SpecSource == InitSource /\ [][NextSource]_vars

(***************************************************************************)
(* select_endpoint: an agent with retries=2 whose answer validate_result   *)
(* accepts or sends back with ModelRetry.                                  *)
(***************************************************************************)
retries == 2

\* what the agent may answer: a path, "null", or something else
AgentAnswers == PathKeys \cup {"null", "/nonexistent", "GET /weather"}

UnexpectedModelBehavior == Some("UnexpectedModelBehavior")
NoSelection == [kind |-> "none", value |-> None]

\* a validate_result that lets every answer through
valid_result_any(result, available_endpoints) == TRUE

\* validate_result: `result not in [*ctx.deps.available_endpoints, "null"]` raises ModelRetry
valid_result(result, available_endpoints) == result \in available_endpoints \cup {"null"}

InitSelection ==
    /\ doc \in EndpointDocuments
    /\ openapi_spec = model_validate(doc)
    /\ pc = "model_validate"
    /\ NoServerCall
    /\ NoDownload
    /\ NoDescriptions
    /\ selection = [pc |-> "select_endpoint", available_endpoints |-> {},
                    result_retries |-> 0, model_calls |-> 0, answer |-> "",
                    outcome |-> NoSelection]
    /\ params = NoCall /\ source = NoCall /\ parse = NoCall

\* endpoint_descriptions = generate_endpoint_descriptions(openapi_spec) and the Deps
BuildDeps ==
    /\ selection.pc = "select_endpoint"
    /\ descriptions' = generate_endpoint_descriptions(openapi_spec)
    /\ selection' = [selection EXCEPT
                       !.pc = "run_sync",
                       !.available_endpoints =
                           DOMAIN generate_endpoint_descriptions(openapi_spec)]
    /\ pc' = "generate_endpoint_descriptions"
    /\ UNCHANGED <<doc, openapi_spec, path, outcome, prev, response, steps, download,
                   params, source, parse>>

\* agent.run_sync: one answer of the model; an invalid one is sent back until the
\* retries are used up, a valid one is returned ("null" as None)
AgentAnswer(a) ==
    /\ selection.pc = "run_sync"
    /\ IF valid_result(a, selection.available_endpoints)
       THEN selection' = [selection EXCEPT
                            !.pc = "done", !.model_calls = @ + 1, !.answer = a,
                            !.outcome = IF a = "null" THEN [kind |-> "return", value |-> None]
                                        ELSE [kind |-> "return", value |-> Some(a)]]
       ELSE IF selection.result_retries + 1 > retries
            THEN selection' = [selection EXCEPT
                                 !.pc = "done", !.model_calls = @ + 1, !.answer = a,
                                 !.result_retries = @ + 1,
                                 !.outcome = [kind |-> "raise",
                                              value |-> UnexpectedModelBehavior]]
            ELSE selection' = [selection EXCEPT
                                 !.model_calls = @ + 1, !.answer = a,
                                 !.result_retries = @ + 1]
    /\ pc' = "run_sync"
    /\ UNCHANGED <<doc, openapi_spec, path, outcome, prev, response, steps, download,
                   descriptions, params, source, parse>>

NextSelection ==
    \/ BuildDeps
    \/ \E a \in AgentAnswers : AgentAnswer(a)

SpecSelection == InitSelection /\ [][NextSelection]_vars

(***************************************************************************)
(* parse_openapi_spec: the downloaded value, its `openapi` version, and    *)
(* the validation against the OpenAPI 3.1 or 3.0 model.                    *)
(***************************************************************************)
\* a string as the sequence of its characters
Str(chars) == [type |-> "str", chars |-> chars]
\* a number as YAML and JSON read an unquoted 3.1 or 3.0
Float(chars) == [type |-> "float", chars |-> chars]
NoneValue == [type |-> "NoneType", chars |-> <<>>]
Absent == [type |-> "absent", chars |-> <<>>]

VersionStrings ==
    {<<"3", ".", "1", ".", "0">>, <<"3", ".", "1", ".", "1">>, <<"3", ".", "1">>,
     <<"3", ".", "1", "0", ".", "0">>,
     <<"3", ".", "0", ".", "0">>, <<"3", ".", "0", ".", "3">>, <<"3", ".", "0">>,
     <<"3", ".", "2", ".", "0">>, <<"3", ".">>, <<"3">>, <<>>,
     <<"2", ".", "0">>, <<"v", "3", ".", "1">>}

OpenapiFields ==
    {Absent, NoneValue, Float(<<"3", ".", "1">>), Float(<<"3", ".", "0">>)}
    \cup {Str(v) : v \in VersionStrings}

\* what download_spec may return: a dict, with or without `info`, or another value
DownloadedValues ==
    {[type |-> "dict", openapi |-> o, info |-> i] : o \in OpenapiFields, i \in BOOLEAN}
    \cup {[type |-> t, openapi |-> Absent, info |-> FALSE] : t \in {"list", "str", "NoneType"}}

\* str.startswith
startswith(chars, prefix) ==
    Len(chars) >= Len(prefix) /\ SubSeq(chars, 1, Len(prefix)) = prefix

\* spec.get("openapi", "")
get_openapi(spec) == IF spec.openapi.type = "absent" THEN Str(<<>>) ELSE spec.openapi

UnsupportedVersion == "Unsupported OpenAPI version"
AttributeError == "AttributeError"
ValidationError == "ValidationError"

InitParse ==
    /\ doc = Document(None, None)
    /\ openapi_spec = model_validate(doc)
    /\ pc = "parse_openapi_spec"
    /\ NoServerCall
    /\ NoDownload
    /\ NoDescriptions
    /\ \E v \in DownloadedValues :
          parse = [pc |-> "download_spec", spec |-> v, version |-> Absent,
                   validated_by |-> "", outcome |-> NoOutcome]
    /\ params = NoCall /\ selection = NoCall /\ source = NoCall

\* version = spec.get("openapi", ""): a value that is no dict has no get
GetVersion ==
    /\ parse.pc = "download_spec"
    /\ parse' = IF parse.spec.type = "dict"
                THEN [parse EXCEPT !.pc = "version", !.version = get_openapi(parse.spec)]
                ELSE [parse EXCEPT !.pc = "done", !.outcome = Raise(AttributeError)]
    /\ pc' = "spec.get"
    /\ UNCHANGED <<doc, openapi_spec, path, outcome, prev, response, steps, download,
                   descriptions, params, selection, source>>

\* the version test: a version that is no str has no startswith
SelectModel ==
    /\ parse.pc = "version"
    /\ parse' = IF parse.version.type /= "str"
                THEN [parse EXCEPT !.pc = "done", !.outcome = Raise(AttributeError)]
                ELSE IF startswith(parse.version.chars, <<"3", ".", "1">>)
                THEN [parse EXCEPT !.pc = "model_validate", !.validated_by = "OpenAPI31"]
                ELSE IF startswith(parse.version.chars, <<"3", ".", "0">>)
                THEN [parse EXCEPT !.pc = "model_validate", !.validated_by = "OpenAPI30"]
                ELSE [parse EXCEPT !.pc = "done", !.outcome = Raise(UnsupportedVersion)]
    /\ pc' = "version.startswith"
    /\ UNCHANGED <<doc, openapi_spec, path, outcome, prev, response, steps, download,
                   descriptions, params, selection, source>>

\* OpenAPI31.model_validate(spec) or OpenAPI30.model_validate(spec): `info` is required
ValidateModel ==
    /\ parse.pc = "model_validate"
    /\ parse' = [parse EXCEPT
                   !.pc = "done",
                   !.outcome = IF parse.spec.info THEN Return(parse.validated_by)
                               ELSE Raise(ValidationError)]
    /\ pc' = "model_validate"
    /\ UNCHANGED <<doc, openapi_spec, path, outcome, prev, response, steps, download,
                   descriptions, params, selection, source>>

NextParse ==
    \/ GetVersion
    \/ SelectModel
    \/ ValidateModel

SpecParse == InitParse /\ [][NextParse]_vars

(***************************************************************************)
(* Properties of get_path_server_url, checked under SpecServer.            *)
(***************************************************************************)
Resolved == pc = "get_path_server_url"

\* the three ways in which the path-level rule does not apply
PathNotSupplied == path.isNone \/ path.val = ""
PathIsKey ==
    /\ ~PathNotSupplied
    /\ ~openapi_spec.paths.isNone
    /\ path.val \in DOMAIN openapi_spec.paths.val
PathNotKey == ~PathNotSupplied /\ ~PathIsKey
PathEntryServers == openapi_spec.paths.val[path.val].servers
PathEntryWithoutServers ==
    PathIsKey /\ (PathEntryServers.isNone \/ PathEntryServers.val = <<>>)
PathEntryWithServers ==
    PathIsKey /\ ~PathEntryServers.isNone /\ PathEntryServers.val /= <<>>

RootServersEmpty == openapi_spec.servers.isNone \/ openapi_spec.servers.val = <<>>

\* C1: after a call with a path that is a key of spec.paths whose entry has a
\* non-empty server list, the outcome is the url of that entry's first server,
\* whatever the root-level servers are.
C1_PathServerTakesPrecedence ==
    (Resolved /\ PathEntryWithServers) => outcome = Return(Head(PathEntryServers.val).url)

\* a call answered from the path entry while the root-level servers name another url
C1_Witness ==
    /\ Resolved /\ PathEntryWithServers
    /\ ~RootServersEmpty
    /\ Head(openapi_spec.servers.val).url /= Head(PathEntryServers.val).url
    /\ Head(openapi_spec.servers.val).url /= ""
    /\ outcome = Return("https://api.example.com/v1")

\* C2: with a non-empty root-level server list, a call whose path is not supplied
\* or empty, is no key of spec.paths, or is a key whose entry has no servers,
\* returns the url of the first root-level server (and does not fail).
C2_RootServerFallback ==
    (Resolved /\ ~RootServersEmpty /\ ~PathEntryWithServers)
        => outcome = Return(Head(openapi_spec.servers.val).url)

\* a call for a path that is a key with an empty server list, answered from the root
C2_Witness ==
    /\ Resolved /\ PathIsKey /\ ~PathEntryServers.isNone /\ PathEntryServers.val = <<>>
    /\ ~RootServersEmpty
    /\ outcome = Return("https://api.example.com/v1")

\* C3: with an empty or absent root-level server list and a path for which the
\* path-level rule does not apply, the call raises the no-server ValueError and
\* returns nothing; servers of other path entries are not used.
C3_NoServerError ==
    (Resolved /\ RootServersEmpty /\ ~PathEntryWithServers) => outcome = Raise(NoServerFound)

\* a failing call for a path that is no key, while another path entry declares servers
C3_Witness ==
    /\ Resolved /\ RootServersEmpty /\ PathNotKey
    /\ ~openapi_spec.paths.isNone
    /\ \E k \in DOMAIN openapi_spec.paths.val :
          /\ ~openapi_spec.paths.val[k].servers.isNone
          /\ openapi_spec.paths.val[k].servers.val /= <<>>
    /\ outcome = Raise(NoServerFound)

\* C4: for the specification validated from a document without a `servers` field
\* and with an empty `paths` mapping, every call raises the no-server error.
C4_AbsentServersRaise ==
    (/\ Resolved
     /\ doc.servers.isNone
     /\ ~doc.paths.isNone /\ DOMAIN doc.paths.val = {}
     /\ openapi_spec = model_validate(doc))
        => outcome = Raise(NoServerFound)

\* C5: a call returns exactly one non-empty url string or raises the no-server
\* error; it never returns an empty string.
C5_NeverEmptyUrl ==
    Resolved =>
        \/ outcome = Raise(NoServerFound)
        \/ outcome.kind = "return" /\ outcome.value /= ""

\* the specification with every server list cut down to its first entry
FirstOnly(l) == IF l.isNone \/ l.val = <<>> THEN l ELSE Some(<<Head(l.val)>>)
FirstEntriesOnly(spec) ==
    [servers |-> FirstOnly(spec.servers),
     paths |-> IF spec.paths.isNone THEN None
               ELSE Some([k \in DOMAIN spec.paths.val |->
                            [spec.paths.val[k] EXCEPT !.servers = FirstOnly(@)]])]

\* the urls of the first entries of the server lists a call for `path` may consult
ConsultedFirstUrls ==
    (IF RootServersEmpty THEN {} ELSE {Head(openapi_spec.servers.val).url})
    \cup (IF PathEntryWithServers THEN {Head(PathEntryServers.val).url} ELSE {})

\* C6: the outcome of a call is the outcome on the specification stripped of the
\* second and later entries of every server list, so specifications that differ
\* only in later entries have the same outcome; a returned url is a first entry's.
C6_OnlyFirstEntry ==
    Resolved =>
        /\ outcome = get_path_server_url(FirstEntriesOnly(openapi_spec), path)
        /\ outcome.kind = "return" => outcome.value \in ConsultedFirstUrls

\* a call answered from a list whose second entry has another url than its first
C6_Witness ==
    /\ Resolved /\ PathNotKey /\ ~RootServersEmpty
    /\ Len(openapi_spec.servers.val) > 1
    /\ openapi_spec.servers.val[2].url /= openapi_spec.servers.val[1].url
    /\ outcome = Return(openapi_spec.servers.val[1].url)

\* C7: a get_path_server_url step, returning or raising, leaves the specification
\* (its paths, their server lists and the root-level server list) as it was.
C7_SpecUnchanged ==
    [][pc' = "get_path_server_url" => openapi_spec' = openapi_spec /\ doc' = doc]_vars

\* a returning call followed by a raising one, on a specification with servers
C7_Witness ==
    /\ Resolved /\ outcome = Raise(NoServerFound)
    /\ ~prev.isNone /\ prev.val.outcome.kind = "return"
    /\ ~openapi_spec.paths.isNone
    /\ \E k \in DOMAIN openapi_spec.paths.val :
          /\ ~openapi_spec.paths.val[k].servers.isNone
          /\ openapi_spec.paths.val[k].servers.val /= <<>>

\* C8: two calls in a row with the same path, the specification not assigned to
\* in between, have the same outcome.
C8_SameOutcomeTwice ==
    (Resolved /\ ~prev.isNone /\ prev.val.path = path) => prev.val.outcome = outcome

\* the second of two such calls, both returning the same url
C8_Witness ==
    /\ Resolved /\ ~prev.isNone /\ prev.val.path = path
    /\ outcome.kind = "return" /\ prev.val.outcome = outcome
    /\ Len(openapi_spec.servers.val) > 1

(***************************************************************************)
(* Properties of download_spec, checked under SpecDownload.                *)
(***************************************************************************)
Finished == download /= NoOutcome
Ran(step) == \E i \in 1..Len(steps) : steps[i] = step
JsonFails == ~response.text.val.json.ok
YamlFails == ~response.text.val.yaml.ok

\* C9: download_spec runs fetch, JSON parse, YAML parse in this order: an error
\* status raises the HTTP error with no parse attempted, the YAML parse runs only
\* after the JSON parse has failed, the value of the first parser that succeeds is
\* returned, and the parse ValueError is raised exactly when both parsers failed.
C9_DownloadOrder ==
    /\ \E n \in 0..4 :
          steps = SubSeq(<<"requests.get", "raise_for_status", "json.loads", "yaml.safe_load">>, 1, n)
    /\ (Ran("raise_for_status") /\ response.status_code \in {404, 500})
          => download = Raise(HTTPError) /\ ~Ran("json.loads") /\ ~Ran("yaml.safe_load")
    /\ Ran("json.loads") => response.status_code \in {200, 204}
    /\ Ran("yaml.safe_load") => Ran("json.loads") /\ JsonFails
    /\ (Ran("json.loads") /\ ~JsonFails)
          => download = Return(response.text.val.json.value) /\ ~Ran("yaml.safe_load")
    /\ (Ran("yaml.safe_load") /\ ~YamlFails) => download = Return(response.text.val.yaml.value)
    /\ download = Raise(ParseFailed)
          <=> (Ran("json.loads") /\ JsonFails /\ Ran("yaml.safe_load") /\ YamlFails)
    /\ ~Finished =>
          \/ ~Ran("raise_for_status")
          \/ steps = <<"requests.get", "raise_for_status">> /\ response.status_code \in {200, 204}
          \/ steps = <<"requests.get", "raise_for_status", "json.loads">> /\ JsonFails

\* a download whose text is no JSON but YAML: the YAML value is returned
C9_Witness ==
    /\ steps = <<"requests.get", "raise_for_status", "json.loads", "yaml.safe_load">>
    /\ JsonFails
    /\ download = Return("dict")

(***************************************************************************)
(* Properties of generate_endpoint_descriptions, checked under             *)
(* SpecEndpoints.                                                          *)
(***************************************************************************)
PathsWithGet ==
    IF openapi_spec.paths.isNone THEN {}
    ELSE {k \in DOMAIN openapi_spec.paths.val : openapi_spec.paths.val[k].get /= None}

\* C10: the keys of generate_endpoint_descriptions(spec) are exactly the paths of
\* spec.paths that declare a GET operation; no paths, or none with GET, gives the
\* empty mapping.
C10_KeysAreGetPaths ==
    pc = "generate_endpoint_descriptions" =>
        /\ DOMAIN descriptions = PathsWithGet
        /\ PathsWithGet = {} => descriptions = <<>>

\* a path with GET and POST is kept while a path with PUT only is left out
C10_Witness ==
    /\ pc = "generate_endpoint_descriptions"
    /\ ~openapi_spec.paths.isNone
    /\ DOMAIN openapi_spec.paths.val = {"/weather", "/other"}
    /\ openapi_spec.paths.val["/weather"].get /= None
    /\ openapi_spec.paths.val["/weather"].post /= None
    /\ openapi_spec.paths.val["/other"].get = None
    /\ openapi_spec.paths.val["/other"].put /= None
    /\ DOMAIN descriptions = {"/weather"}

(***************************************************************************)
(* Properties of select_parameters, checked under SpecParameters.          *)
(***************************************************************************)
ParametersExtracted == params.pc \in {"llm_get_params", "done"}

EndpointIsKey ==
    /\ ~openapi_spec.paths.isNone
    /\ params.endpoint \in DOMAIN openapi_spec.paths.val

EndpointGet == openapi_spec.paths.val[params.endpoint].get
EndpointHasParameters ==
    /\ EndpointIsKey
    /\ ~EndpointGet.isNone
    /\ ~EndpointGet.val.parameters.isNone
    /\ EndpointGet.val.parameters.val /= <<>>
EndpointParameters == EndpointGet.val.parameters.val

C12_NoParametersReturnsEmpty ==
    (/\ ParametersExtracted
     /\ EndpointIsKey
     /\ \/ ~EndpointHasParameters
        \/ \A i \in 1..Len(EndpointParameters) :
              resolve_parameter_reference(EndpointParameters[i], openapi_spec).kind
                  /= "Parameter")
        => /\ params.pc = "done"
           /\ params.outcome = Return(<<>>)
           /\ params.attempts = 0

\* the call for an endpoint whose only parameter is a reference without a target
C12_Witness ==
    /\ params.pc = "done"
    /\ EndpointHasParameters
    /\ openapi_spec.components.isNone
    /\ \A i \in 1..Len(EndpointParameters) : EndpointParameters[i].kind = "Reference"
    /\ params.outcome = Return(<<>>)
    /\ params.attempts = 0

\* the parameters of components.parameters
ComponentParameters ==
    IF openapi_spec.components.isNone \/ openapi_spec.components.val.parameters.isNone
    THEN <<>>
    ELSE openapi_spec.components.val.parameters.val

\* C14: every GET parameter of the endpoint declared as a `$ref` reference is
\* resolved to the parameter of that name in spec.components.parameters and so
\* appears in the parameter descriptions like an inline parameter.
C14_ReferencesResolved ==
    (ParametersExtracted /\ EndpointHasParameters) =>
        \A i \in 1..Len(EndpointParameters) :
            LET p == EndpointParameters[i]
                ref_name == p.ref[Len(p.ref)]
            IN  (p.kind = "Reference" /\ ref_name \in DOMAIN ComponentParameters)
                    => ComponentParameters[ref_name].name
                           \in DOMAIN params.parameter_descriptions

\* the names of the GET parameters of the endpoint that the lookup keeps
ResolvedParameterNames ==
    IF EndpointHasParameters
    THEN {EndpointParameters[i].name :
            i \in {j \in 1..Len(EndpointParameters) : EndpointParameters[j].kind = "Parameter"}}
    ELSE {}

AnswerRejected ==
    \/ ~params.answer.wellformed
    \/ \E i \in 1..Len(params.answer.parameters) :
          params.answer.parameters[i].name \notin ResolvedParameterNames

\* C15: a returned list holds only names of resolved GET parameters of the
\* endpoint; an answer with another name is rejected and retried; the language
\* model is called at most 3 times; after 3 failed attempts the call fails.
C15_OnlyValidatedNames ==
    /\ params.attempts <= 3
    /\ params.outcome.kind = "return" =>
          \A i \in 1..Len(params.outcome.value) :
              params.outcome.value[i].name \in ResolvedParameterNames
    /\ (params.attempts > 0 /\ AnswerRejected) =>
          /\ params.outcome.kind /= "return"
          /\ params.attempts < 3 => params.pc = "llm_get_params" /\ params.outcome = NoResult
          /\ params.attempts = 3 => params.pc = "done" /\ params.outcome = Raise(RetryError)
    /\ params.outcome = Raise(RetryError) => params.attempts = 3 /\ AnswerRejected

\* a list accepted at the third attempt, after two rejected answers
C15_Witness ==
    /\ params.pc = "done"
    /\ params.attempts = 3
    /\ params.outcome = Return(<<ParameterIn("latitude")>>)

(***************************************************************************)
(* Properties of generate_endpoint_dlt_rest_api_source, checked under      *)
(* SpecSource.                                                             *)
(***************************************************************************)
SourceEndpointServers ==
    IF /\ ~openapi_spec.paths.isNone
       /\ source.endpoint \in DOMAIN openapi_spec.paths.val
       /\ ~openapi_spec.paths.val[source.endpoint].servers.isNone
    THEN openapi_spec.paths.val[source.endpoint].servers.val
    ELSE <<>>

NoServerForEndpoint == RootServersEmpty /\ SourceEndpointServers = <<>>

\* C13: when no server url resolves for the endpoint, the call ends with the
\* no-server error of get_path_server_url, after one lookup and without reaching
\* rest_api_resources; a resource is only built with the base_url that
\* get_path_server_url returned for that endpoint.
C13_NoSourceWithoutServer ==
    /\ source.resolve_calls <= 1
    /\ (source.resolve_calls = 1 /\ NoServerForEndpoint) =>
          /\ source.pc = "done"
          /\ source.error = Some("No server url found in openapi spec")
          /\ source.server_url = None
          /\ source.resource = None
    /\ ~source.error.isNone => source.resource = None /\ pc /= "rest_api_resources"
    /\ ~source.resource.isNone =>
          /\ source.error = None
          /\ source.resolve_calls = 1
          /\ get_path_server_url(openapi_spec, Some(source.endpoint))
                = Return(source.resource.val.base_url)
          /\ source.resource.val.path = source.endpoint

\* the failed call for an endpoint without servers on a specification without root servers
C13_Witness ==
    /\ source.pc = "done"
    /\ NoServerForEndpoint
    /\ source.endpoint = "/weather"
    /\ ~openapi_spec.paths.isNone /\ "/weather" \in DOMAIN openapi_spec.paths.val
    /\ source.error = Some("No server url found in openapi spec")

(***************************************************************************)
(* Properties of select_endpoint, checked under SpecSelection.             *)
(***************************************************************************)
AnswerIsGetPath == selection.answer \in PathsWithGet

\* C16: select_endpoint returns None exactly when the accepted answer is "null",
\* and otherwise a path of spec.paths with a GET operation; any other answer is
\* never returned: it is retried, and with the 2 retries used up the call fails.
C16_OnlyGetPathsOrNone ==
    /\ selection.outcome.kind = "return" =>
          /\ selection.outcome.value = None <=> selection.answer = "null"
          /\ selection.outcome.value /= None =>
                /\ selection.outcome.value.val \in PathsWithGet
                /\ selection.outcome.value.val = selection.answer
    /\ (selection.model_calls > 0 /\ ~AnswerIsGetPath /\ selection.answer /= "null") =>
          /\ selection.outcome.kind /= "return"
          /\ selection.result_retries > 0
          /\ selection.result_retries <= 2 =>
                selection.pc = "run_sync" /\ selection.outcome.kind = "none"
          /\ selection.result_retries > 2 =>
                selection.pc = "done" /\ selection.outcome.kind = "raise"
    /\ selection.outcome.kind = "raise" =>
          selection.result_retries > 2 /\ ~AnswerIsGetPath /\ selection.answer /= "null"

\* a GET path returned after an answer that names a path without GET was sent back
C16_Witness ==
    /\ selection.pc = "done"
    /\ selection.result_retries = 1
    /\ selection.outcome = [kind |-> "return", value |-> Some("/weather")]
    /\ "/other" \in DOMAIN openapi_spec.paths.val
    /\ "/other" \notin PathsWithGet

(***************************************************************************)
(* Properties of parse_openapi_spec, checked under SpecParse.              *)
(***************************************************************************)
OpenapiString == parse.spec.type = "dict" /\ parse.spec.openapi.type = "str"
VersionIs31 ==
    /\ OpenapiString
    /\ Len(parse.spec.openapi.chars) >= 3
    /\ parse.spec.openapi.chars[1] = "3"
    /\ parse.spec.openapi.chars[2] = "."
    /\ parse.spec.openapi.chars[3] = "1"
VersionIs30 ==
    /\ OpenapiString
    /\ Len(parse.spec.openapi.chars) >= 3
    /\ parse.spec.openapi.chars[1] = "3"
    /\ parse.spec.openapi.chars[2] = "."
    /\ parse.spec.openapi.chars[3] = "0"

\* C17: the downloaded document is validated against the 3.1 model exactly when
\* its `openapi` string starts with "3.1", against the 3.0 model exactly when it
\* starts with "3.0", and every other downloaded document ends in ValueError
\* "Unsupported OpenAPI version" with no specification returned.
C17_VersionDispatch ==
    parse.pc = "done" =>
        /\ parse.validated_by = "OpenAPI31" <=> VersionIs31
        /\ parse.validated_by = "OpenAPI30" <=> VersionIs30
        /\ (~VersionIs31 /\ ~VersionIs30) =>
              parse.outcome = Raise("Unsupported OpenAPI version")

\* the same statement for the documents that are dicts whose `openapi` is a string or
\* absent: for these it holds
C17_StringVersions ==
    (parse.pc = "done" /\ parse.spec.type = "dict"
        /\ parse.spec.openapi.type \in {"str", "absent"}) =>
        /\ parse.validated_by = "OpenAPI31" <=> VersionIs31
        /\ parse.validated_by = "OpenAPI30" <=> VersionIs30
        /\ (~VersionIs31 /\ ~VersionIs30) =>
              parse.outcome = Raise("Unsupported OpenAPI version")

====
